---- MODULE Spec2Model ----
(***************************************************************************)
(* FinSmart (src/app.py): a Streamlit script.  The sidebar holds two       *)
(* widgets (the knowledge-level slider and the watchlist multiselect);     *)
(* every user interaction stores the widget's new value and re-runs the    *)
(* whole script top to bottom, which fetches the catalog, filters it by    *)
(* the watchlist and draws one card per surviving item.                    *)
(*                                                                         *)
(* Encoding.  Python's None-able values are options: None is <<>> and a    *)
(* present value v is <<v>>.  The module is ASCII, so each emoji of the    *)
(* source's string literals is written as its code point, "U+1F4A1" for    *)
(* the light bulb of line 138, and the em dash of line 49 as "-"; every    *)
(* other character of a literal is kept.                                   *)
(* selected_watchlist is a Python list of distinct options that the script *)
(* reads only by membership (line 126); it is modelled as the set of its   *)
(* elements.                                                               *)
(***************************************************************************)
EXTENDS Naturals, Sequences, FiniteSets, TLC

VARIABLES
    catalog,             \* what the data engine returns to get_news_data()
    expertise,           \* value of the select_slider (line 94)
    selected_watchlist,  \* value of the multiselect (line 107)
    news_items,          \* line 121
    filtered_news,       \* line 124
    warning,             \* whether st.warning was drawn (line 130)
    cards,               \* the cards drawn by the loop of line 133, in order
    status,              \* "pending" before the first run, then "ok" | "error"
    pressed              \* key of the button whose click caused this run

vars == <<catalog, expertise, selected_watchlist, news_items, filtered_news,
          warning, cards, status, pressed>>

-----------------------------------------------------------------------------
(* Bounds of the input sets used for the pure-function specifications.      *)

MaxItems == 2
MaxTags == 2
MaxScore == 100

-----------------------------------------------------------------------------
(* Python values.                                                           *)

None == <<>>
Some(v) == <<v>>

Range(s) == {s[i] : i \in 1..Len(s)}

\* Mutant: "is not None" in place of truthiness.
IsNotNone(opt) == opt # None

\* bool(x) of an Optional[str]: None and "" are falsy.
Truthy(opt) == opt # None /\ opt[1] # ""

Digit == <<"0", "1", "2", "3", "4", "5", "6", "7", "8", "9">>

RECURSIVE PyStr(_)
\* str(n) of a non-negative int: its decimal digits, most significant first.
PyStr(n) == IF n < 10 THEN Digit[n + 1]
            ELSE PyStr(n \div 10) \o Digit[(n % 10) + 1]

\* format(x, "") inside an f-string, for an Optional[int].
PyFormat(opt) == IF opt = None THEN "None" ELSE PyStr(opt[1])

-----------------------------------------------------------------------------
(* The mock data engine.                                                    *)

get_news_data ==
    << [id |-> 1,
        headline |-> "Fed hikes rates by 25bps, signals pause",
        source |-> "Bloomberg Markets",
        time |-> "10m ago",
        tags |-> <<"Macro", "USD", "Fed">>,
        sentiment |-> "bearish",
        impact |-> Some(95),
        beginner_view |-> Some("The US Central Bank is making it more expensive to borrow money. This usually slows down the economy but helps stop prices from rising too fast (inflation)."),
        expert_view |-> Some("FOMC delivers 25bps hike as priced in. Dot plot suggests terminal rate is near. Expect DXY consolidation and pressure on growth stocks."),
        el_erian_comment |-> Some("This is the 'trilemma' in action-fighting inflation without breaking growth.")],
       [id |-> 2,
        headline |-> "Bitcoin surges past $45k on ETF rumours",
        source |-> "CoinDesk",
        time |-> "2h ago",
        tags |-> <<"Crypto", "BTC", "Regulation">>,
        sentiment |-> "bullish",
        impact |-> Some(88),
        beginner_view |-> Some("Bitcoin's price is going up because people think the government will soon let regular stock investors buy Bitcoin easily (through an ETF)."),
        expert_view |-> Some("Institutional inflows anticipated pending SEC approval. BTC breaking key resistance levels; short squeeze likely above $46k."),
        el_erian_comment |-> Some("Speculative assets are reacting to liquidity hopes, not fundamentals.")],
       [id |-> 3,
        headline |-> "NVIDIA revenue beats expectations by 20%",
        source |-> "Financial Times",
        time |-> "4h ago",
        tags |-> <<"Tech", "AI", "Stocks">>,
        sentiment |-> "bullish",
        impact |-> Some(60),
        beginner_view |-> Some("NVIDIA (the chip company) sold way more AI chips than anyone guessed. This is good for the company and shows the AI boom is real."),
        expert_view |-> Some("Data center revenue up 140% YoY. Forward guidance raised. Supports the structural AI bull case despite high valuations."),
        el_erian_comment |-> None],
       [id |-> 4,
        headline |-> "Oil prices drop as production increases",
        source |-> "Reuters",
        time |-> "5h ago",
        tags |-> <<"Commodities", "Oil", "Energy">>,
        sentiment |-> "bearish",
        impact |-> Some(45),
        beginner_view |-> Some("Gas might get cheaper soon because there is more oil available in the market than people need right now."),
        expert_view |-> Some("WTI crude testing support at $70. Supply glut concerns outweigh geopolitical risk premiums."),
        el_erian_comment |-> None] >>

-----------------------------------------------------------------------------
(* Sidebar.                                                                 *)

Levels == {"Beginner", "Intermediate", "Expert"}

default_expertise == "Beginner"

\* Mutant: a selectable topic that tags no item of the catalog.
all_tags_with_bonds ==
    {"Macro", "Crypto", "Tech", "Stocks", "Commodities", "Fed", "AI", "Bonds"}

all_tags == {"Macro", "Crypto", "Tech", "Stocks", "Commodities", "Fed", "AI"}

default_watchlist == {"Macro", "Crypto", "Tech"}

-----------------------------------------------------------------------------
(* Main feed: filter.                                                       *)

\* Mutant: all() in place of any().
AllTagsSelected(item, watchlist) ==
    \A i \in 1..Len(item.tags) : item.tags[i] \in watchlist

\* any(tag in selected_watchlist for tag in item["tags"])
AnyTagSelected(item, watchlist) ==
    \E i \in 1..Len(item.tags) : item.tags[i] \in watchlist

\* Mutant: an empty watchlist shows everything.
FilterNewsShowAll(items, watchlist) ==
    IF watchlist = {} THEN items
    ELSE SelectSeq(items, LAMBDA item : Range(item.tags) \cap watchlist # {})

RECURSIVE FilterNews(_, _)
\* [item for item in news_items if any(...)]
FilterNews(items, watchlist) ==
    IF items = <<>> THEN <<>>
    ELSE (IF AnyTagSelected(Head(items), watchlist) THEN <<Head(items)>> ELSE <<>>)
         \o FilterNews(Tail(items), watchlist)

-----------------------------------------------------------------------------
(* Main feed: one card.                                                     *)

\* Line 143 raises TypeError when either operand of + is None.
ExplanationRaises(item, level) ==
    /\ level \notin {"Beginner", "Expert"}
    /\ (item.beginner_view = None \/ item.expert_view = None)

\* Mutant: the Intermediate text puts the expert view first.
ExplanationExpertFirst(item, level) ==
    IF level = "Beginner" THEN item.beginner_view
    ELSE IF level = "Expert" THEN item.expert_view
    ELSE Some(item.expert_view[1] \o " " \o item.beginner_view[1])

\* The text passed to st.write (an option: st.write(None) is legal).
Explanation(item, level) ==
    IF level = "Beginner" THEN item.beginner_view
    ELSE IF level = "Expert" THEN item.expert_view
    ELSE Some(item.beginner_view[1] \o " " \o item.expert_view[1])

\* Mutant: the Beginner and Expert labels are exchanged.
ContextLabelSwapped(level) ==
    IF level = "Beginner" THEN "U+1F9E0 Technical Analysis"
    ELSE IF level = "Expert" THEN "U+1F4A1 The Basic Concept"
    ELSE "U+1F4DD Deep Dive"

ContextLabel(level) ==
    IF level = "Beginner" THEN "U+1F4A1 The Basic Concept"
    ELSE IF level = "Expert" THEN "U+1F9E0 Technical Analysis"
    ELSE "U+1F4DD Deep Dive"

\* The border-left colour the style sheet gives <div class="card X">.
BorderColor(class) ==
    CASE class = "bullish" -> "#00C805"
      [] class = "bearish" -> "#FF2B2B"
      [] class = "neutral" -> "#FFA500"
      [] OTHER -> "#333"

CommentBlock(item) ==
    IF Truthy(item.el_erian_comment)
    THEN Some("> **Mohamed El-Erian says:** > *\"" \o item.el_erian_comment[1] \o "\"*")
    ELSE None

\* Mutant: the score is rounded down to a multiple of ten.
MetricValueRounded(item) ==
    (IF item.impact = None THEN "None" ELSE PyStr((item.impact[1] \div 10) * 10))
    \o "/100"

MetricValue(item) == PyFormat(item.impact) \o "/100"

SentimentIndicator(item) ==
    IF item.sentiment = "bullish" THEN "U+1F7E2 **Bullish**"
    ELSE "U+1F534 **Bearish**"

SaveKey(item) == "save_" \o PyStr(item.id)

ShareKey(item) == "share_" \o PyStr(item.id)

\* Mutant: the commentary is drawn for Expert readers only.
BuildCardExpertCommentary(item, level) ==
    [id |-> item.id,
     sentiment_class |-> item.sentiment,
     border |-> BorderColor(item.sentiment),
     source |-> item.source,
     time |-> item.time,
     headline |-> item.headline,
     badges |-> item.tags,
     context_label |-> ContextLabel(level),
     expander |-> ContextLabel(level) \o " (Click to Read)",
     explanation |-> Explanation(item, level),
     comment |-> IF level = "Expert" THEN CommentBlock(item) ELSE None,
     metric |-> MetricValue(item),
     indicator |-> SentimentIndicator(item),
     save_key |-> SaveKey(item),
     share_key |-> ShareKey(item)]

\* Everything one iteration of the loop draws.
BuildCard(item, level) ==
    [id |-> item.id,
     sentiment_class |-> item.sentiment,
     border |-> BorderColor(item.sentiment),
     source |-> item.source,
     time |-> item.time,
     headline |-> item.headline,
     badges |-> item.tags,
     context_label |-> ContextLabel(level),
     expander |-> ContextLabel(level) \o " (Click to Read)",
     explanation |-> Explanation(item, level),
     comment |-> CommentBlock(item),
     metric |-> MetricValue(item),
     indicator |-> SentimentIndicator(item),
     save_key |-> SaveKey(item),
     share_key |-> ShareKey(item)]

RECURSIVE RenderCards(_, _)
\* The loop: cards are drawn in order until an iteration raises.
RenderCards(items, level) ==
    IF items = <<>> \/ ExplanationRaises(Head(items), level) THEN <<>>
    ELSE <<BuildCard(Head(items), level)>> \o RenderCards(Tail(items), level)

-----------------------------------------------------------------------------
(* One run of the script with the given widget values.                      *)

\* Mutant: a re-run filters the list the previous run displayed instead of
\* a freshly fetched catalog.
ScriptIncremental(level, watchlist, key) ==
    LET items == IF status = "pending" THEN catalog ELSE filtered_news
        kept == FilterNews(items, watchlist)
    IN /\ expertise' = level
       /\ selected_watchlist' = watchlist
       /\ pressed' = key
       /\ news_items' = items
       /\ filtered_news' = kept
       /\ warning' = (kept = <<>>)
       /\ cards' = RenderCards(kept, level)
       /\ status' = IF \E i \in 1..Len(kept) : ExplanationRaises(kept[i], level)
                    THEN "error" ELSE "ok"
       /\ UNCHANGED catalog

Script(level, watchlist, key) ==
    LET items == catalog
        kept == FilterNews(items, watchlist)
    IN /\ expertise' = level
       /\ selected_watchlist' = watchlist
       /\ pressed' = key
       /\ news_items' = items
       /\ filtered_news' = kept
       /\ warning' = (kept = <<>>)
       /\ cards' = RenderCards(kept, level)
       /\ status' = IF \E i \in 1..Len(kept) : ExplanationRaises(kept[i], level)
                    THEN "error" ELSE "ok"
       /\ UNCHANGED catalog

Blank ==
    /\ news_items = <<>>
    /\ filtered_news = <<>>
    /\ warning = FALSE
    /\ cards = <<>>
    /\ status = "pending"
    /\ pressed = "none"

Init ==
    /\ catalog = get_news_data
    /\ expertise = default_expertise
    /\ selected_watchlist = default_watchlist
    /\ Blank

FirstRun ==
    /\ status = "pending"
    /\ Script(expertise, selected_watchlist, "none")

SelectSlider ==
    /\ status # "pending"
    /\ \E level \in Levels \ {expertise} :
           Script(level, selected_watchlist, "none")

MultiselectAdd ==
    /\ status # "pending"
    /\ \E tag \in all_tags \ selected_watchlist :
           Script(expertise, selected_watchlist \cup {tag}, "none")

MultiselectRemove ==
    /\ status # "pending"
    /\ \E tag \in selected_watchlist :
           Script(expertise, selected_watchlist \ {tag}, "none")

ClickSave ==
    /\ status # "pending"
    /\ \E i \in 1..Len(cards) :
           Script(expertise, selected_watchlist, cards[i].save_key)

ClickShare ==
    /\ status # "pending"
    /\ \E i \in 1..Len(cards) :
           Script(expertise, selected_watchlist, cards[i].share_key)

Next ==
    \/ FirstRun
    \/ SelectSlider
    \/ MultiselectAdd
    \/ MultiselectRemove
    \/ ClickSave
    \/ ClickShare

Spec == Init /\ [][Next]_vars

-----------------------------------------------------------------------------
(* Inputs for the pure functions of the render pass: the filter and the     *)
(* card builder applied to catalogs other than the mock one.  An item       *)
(* differs from BaseItem either in its tags or in the fields a card is      *)
(* built from; ids are the positions in the batch.  The sentiment values    *)
(* up and down are the live feed's vocabulary, which the mock catalog does  *)
(* not use.                                                                 *)

TagUniverse == {"Macro", "Crypto", "USD"}

WatchTopics == {"Macro", "Crypto"}

Sentiments == {"bullish", "bearish", "up", "down"}

BeginnerViews == {None, Some(""), Some("Rates went up.")}

ExpertViews == {None, Some(""), Some("FOMC +25bps, as priced in.")}

Comments == {None, Some(""), Some("The trilemma in action.")}

SeqsUpTo(S, n) == UNION {[1..k -> S] : k \in 0..n}

TagLists == SeqsUpTo(TagUniverse, MaxTags) \ {<<>>}

BaseItem ==
    [headline |-> "Headline",
     source |-> "Source",
     time |-> "1h ago",
     tags |-> <<"Macro", "USD">>,
     sentiment |-> "bullish",
     impact |-> Some(50),
     beginner_view |-> Some("Rates went up."),
     expert_view |-> Some("FOMC +25bps, as priced in."),
     el_erian_comment |-> None]

TagItems == {[BaseItem EXCEPT !.tags = t] : t \in TagLists}

CardItems ==
    {[BaseItem EXCEPT !.sentiment = s] : s \in Sentiments}
    \cup {[BaseItem EXCEPT !.el_erian_comment = c] : c \in Comments}
    \cup {[BaseItem EXCEPT !.beginner_view = b, !.expert_view = e] :
              b \in BeginnerViews, e \in ExpertViews}

WithIds(items) == [i \in 1..Len(items) |-> [id |-> i] @@ items[i]]

Catalogs ==
    {WithIds(items) : items \in SeqsUpTo(TagItems, MaxItems) \cup SeqsUpTo(CardItems, MaxItems)}
    \cup {get_news_data}

InitAny ==
    /\ catalog \in Catalogs
    /\ expertise \in Levels
    /\ selected_watchlist \in SUBSET WatchTopics
    /\ Blank

NextAny == FirstRun

SpecAny == InitAny /\ [][NextAny]_vars

Scores == {Some(n) : n \in 0..MaxScore} \cup {None}

InitMetric ==
    /\ catalog \in {WithIds(<<[BaseItem EXCEPT !.impact = s]>>) : s \in Scores}
    /\ expertise \in Levels
    /\ selected_watchlist \in SUBSET WatchTopics
    /\ Blank

SpecMetric == InitMetric /\ [][NextAny]_vars

-----------------------------------------------------------------------------
(* Properties, stated over what a run left on the page.                    *)

Done == status # "pending"

\* The catalog item a card was drawn from.
ItemOf(card) == CHOOSE item \in Range(catalog) : item.id = card.id

\* Positions of the items whose tag set meets the watchlist.
Kept(items, watchlist) ==
    {i \in 1..Len(items) : Range(items[i].tags) \cap watchlist # {}}

\* The k-th smallest element of a set of numbers.
Nth(S, k) == CHOOSE i \in S : Cardinality({j \in S : j < i}) = k - 1

Ids(items) == [k \in 1..Len(items) |-> items[k].id]

\* C1: the filtered feed holds exactly the items whose tags meet the
\* watchlist, each once, in input order; on the mock catalog with watchlist
\* {Macro, Crypto} it is items 1 and 2 in that order.
C1_FilterExact ==
    Done =>
        LET K == Kept(catalog, selected_watchlist) IN
        /\ Len(filtered_news) = Cardinality(K)
        /\ \A k \in 1..Len(filtered_news) : filtered_news[k] = catalog[Nth(K, k)]
        /\ \A i \in 1..Len(catalog) :
               Cardinality({k \in 1..Len(filtered_news) :
                                filtered_news[k].id = catalog[i].id})
                   = IF i \in K THEN 1 ELSE 0
        /\ (catalog = get_news_data /\ selected_watchlist = {"Macro", "Crypto"}
                => Ids(filtered_news) = <<1, 2>>)

C1_Witness ==
    /\ Done
    /\ catalog = get_news_data
    /\ selected_watchlist = {"Macro", "Crypto"}
    /\ Ids(filtered_news) = <<1, 2>>

\* C2: with an empty watchlist the filtered feed is empty whatever the
\* catalog, no card is drawn, the warning is shown and the run ends without
\* an error.
C2_EmptyWatchlist ==
    Done /\ selected_watchlist = {} =>
        /\ filtered_news = <<>>
        /\ cards = <<>>
        /\ warning
        /\ status = "ok"

C2_Witness ==
    /\ Done
    /\ selected_watchlist = {}
    /\ expertise = "Intermediate"
    /\ Len(catalog) = MaxItems
    /\ \E i \in 1..Len(catalog) : catalog[i].beginner_view = None
    /\ warning
    /\ cards = <<>>

\* C3: for an item with both explanations, the Intermediate text is the
\* Beginner text, one space, then the Expert text.
C3_IntermediateConcat ==
    Done /\ expertise = "Intermediate" =>
        \A k \in 1..Len(cards) :
            LET item == ItemOf(cards[k]) IN
            item.beginner_view # None /\ item.expert_view # None =>
                cards[k].explanation =
                    Some(BuildCard(item, "Beginner").explanation[1] \o " "
                         \o BuildCard(item, "Expert").explanation[1])

C3_Witness ==
    /\ Done
    /\ expertise = "Intermediate"
    /\ \E k \in 1..Len(cards) :
           /\ ItemOf(cards[k]).beginner_view = Some("Rates went up.")
           /\ ItemOf(cards[k]).expert_view = Some("FOMC +25bps, as priced in.")
           /\ cards[k].explanation = Some("Rates went up. FOMC +25bps, as priced in.")

\* C4 as written: the labels are the bare texts "The Basic Concept",
\* "Technical Analysis" and "Deep Dive".
C4_BareLabels ==
    Done =>
        \A k \in 1..Len(cards) :
            cards[k].context_label =
                CASE expertise = "Beginner" -> "The Basic Concept"
                  [] expertise = "Expert" -> "Technical Analysis"
                  [] expertise = "Intermediate" -> "Deep Dive"

\* C4, amended: every level of {Beginner, Intermediate, Expert} has one label,
\* the text named by the claim preceded by that level's emoji and a space;
\* Beginner cards carry the beginner explanation and Expert cards the expert
\* explanation; Beginner and Expert draw a card for every filtered item.
C4_LevelMapping ==
    Done =>
        /\ expertise \in Levels
        /\ (expertise \in {"Beginner", "Expert"} =>
                status = "ok" /\ Len(cards) = Len(filtered_news))
        /\ \A k \in 1..Len(cards) :
               /\ cards[k].context_label =
                      CASE expertise = "Beginner" -> "U+1F4A1 The Basic Concept"
                        [] expertise = "Expert" -> "U+1F9E0 Technical Analysis"
                        [] expertise = "Intermediate" -> "U+1F4DD Deep Dive"
               /\ cards[k].expander = cards[k].context_label \o " (Click to Read)"
               /\ (expertise = "Beginner" =>
                       cards[k].explanation = ItemOf(cards[k]).beginner_view)
               /\ (expertise = "Expert" =>
                       cards[k].explanation = ItemOf(cards[k]).expert_view)

C4_Witness ==
    /\ Done
    /\ expertise = "Expert"
    /\ \E k \in 1..Len(cards) :
           /\ cards[k].context_label = "U+1F9E0 Technical Analysis"
           /\ cards[k].explanation = Some("FOMC +25bps, as priced in.")
           /\ ItemOf(cards[k]).beginner_view = Some("Rates went up.")

C6_CommentaryIff ==
    Done =>
        \A k \in 1..Len(cards) :
            LET c == ItemOf(cards[k]).el_erian_comment IN
            /\ (cards[k].comment # None) <=> (c # None /\ c # Some(""))
            /\ (cards[k].comment # None =>
                    cards[k].comment =
                        Some("> **Mohamed El-Erian says:** > *\"" \o c[1] \o "\"*"))

C6_Witness ==
    /\ Done
    /\ Len(cards) = 2
    /\ ItemOf(cards[1]).el_erian_comment = Some("")
    /\ cards[1].comment = None
    /\ ItemOf(cards[2]).el_erian_comment = Some("The trilemma in action.")
    /\ cards[2].comment # None

\* C7: a card whose item has an impact score shows exactly "<score>/100".
C7_MetricDisplay ==
    Done =>
        \A k \in 1..Len(cards) :
            LET score == ItemOf(cards[k]).impact IN
            score # None => cards[k].metric = ToString(score[1]) \o "/100"

C7_Witness ==
    /\ Done
    /\ Len(cards) = 1
    /\ ItemOf(cards[1]).impact = Some(MaxScore)
    /\ Len(cards[1].metric) = Len(ToString(MaxScore)) + 4

\* C8: after any interactions the page is the mock catalog filtered by the
\* current watchlist, each card built for the current level; the catalog is
\* the one fetched and is unchanged.
C8_FeedOfCurrentPrefs ==
    Done =>
        LET K == Kept(get_news_data, selected_watchlist) IN
        /\ catalog = get_news_data
        /\ news_items = get_news_data
        /\ status = "ok"
        /\ Ids(filtered_news) = [k \in 1..Cardinality(K) |-> get_news_data[Nth(K, k)].id]
        /\ Len(cards) = Cardinality(K)
        /\ \A k \in 1..Len(cards) :
               LET item == get_news_data[Nth(K, k)] IN
               /\ cards[k].id = item.id
               /\ cards[k].headline = item.headline
               /\ cards[k].badges = item.tags
               /\ cards[k].explanation =
                      CASE expertise = "Beginner" -> item.beginner_view
                        [] expertise = "Expert" -> item.expert_view
                        [] expertise = "Intermediate" ->
                               Some(item.beginner_view[1] \o " " \o item.expert_view[1])
               /\ cards[k].context_label =
                      CASE expertise = "Beginner" -> "U+1F4A1 The Basic Concept"
                        [] expertise = "Expert" -> "U+1F9E0 Technical Analysis"
                        [] expertise = "Intermediate" -> "U+1F4DD Deep Dive"

C8_Witness ==
    /\ Done
    /\ pressed = "share_3"
    /\ expertise = "Expert"
    /\ selected_watchlist = {"AI", "Fed"}
    /\ Ids(cards) = <<1, 3>>

\* C9: the warning is shown exactly when the watchlist is empty; every
\* selectable topic tags some catalog item, so a non-empty selection draws
\* at least one card.
C9_WarningIffEmpty ==
    Done =>
        /\ selected_watchlist \subseteq all_tags
        /\ warning <=> (selected_watchlist = {})
        /\ (selected_watchlist # {} => Len(cards) >= 1)
        /\ \A t \in all_tags : \E i \in 1..Len(catalog) : t \in Range(catalog[i].tags)

C9_Witness ==
    /\ Done
    /\ selected_watchlist = {"Stocks"}
    /\ Ids(cards) = <<3>>
    /\ ~warning

\* The fields of a card that do not depend on the level.
LevelFree(card) ==
    [card EXCEPT !.explanation = None, !.context_label = "", !.expander = ""]

\* C10: a step that keeps the watchlist keeps the displayed items, their
\* order and every card field but explanation and label; a step that keeps
\* the level keeps every field of each card that stays displayed.
C10_NoInterference ==
    [][Done /\ Done' =>
          /\ (selected_watchlist' = selected_watchlist =>
                  /\ Len(cards') = Len(cards)
                  /\ \A k \in 1..Len(cards) :
                         LevelFree(cards'[k]) = LevelFree(cards[k]))
          /\ (expertise' = expertise =>
                  \A k \in 1..Len(cards) : \A j \in 1..Len(cards') :
                      cards'[j].id = cards[k].id => cards'[j] = cards[k])]_vars

C10_Witness ==
    /\ Done
    /\ expertise = "Intermediate"
    /\ selected_watchlist = {"Macro", "Tech", "Commodities"}
    /\ Ids(cards) = <<1, 3, 4>>
    /\ cards[1].comment # None

====
